---- MODULE Spec2Model ----
(***************************************************************************)
(* Real-time order synchronisation of SwiftPOS: the per-restaurant         *)
(* WebSocket channel (orders/route.ts), the connection registry            *)
(* (wsStore.ts), the Stripe webhook that appends paid orders               *)
(* (webhook/route.ts) and the admin client hook (websocketHooks.ts,        *)
(* ActiveOrdersListPage.tsx).                                              *)
(*                                                                         *)
(* Every await of the server code is a point where other handlers run, so  *)
(* each handler is cut into one action per awaited operation; the          *)
(* synchronous code that follows an await belongs to the same action.      *)
(***************************************************************************)
EXTENDS Integers, Sequences, FiniteSets, TLC

\* ------------------------------------------------------------------ bounds
MaxUpdates == 2      \* update messages sent over all channels
MaxWebhooks == 2     \* checkout events delivered by the payment provider
MaxLen == 2          \* orders in a list drawn as input of the reconciliation

\* --------------------------------------------------------------- universes
Restaurants == {"r1", "r2"}      \* restaurant documents that exist
NoRestaurant == "r0"             \* a well-formed ObjectId with no document
BadId == "bad"                   \* a string that is not an ObjectId
Channels == {"c1", "c2"}
Users == {"u1"}
OrderSeq == <<"o1", "o2">>        \* the ids uuid v4 hands out, in this order
OrderIds == {OrderSeq[i] : i \in 1..Len(OrderSeq)}
Tasks == 1..MaxUpdates
Hooks == 1..MaxWebhooks

Pending == "pending"
Preparing == "preparing"
Ready == "ready"
Completed == "completed"
Statuses == {Pending, Preparing, Ready, Completed}

\* position of a status in pending -> preparing -> ready -> completed
Rank(s) == CASE s = Pending -> 0 [] s = Preparing -> 1 [] s = Ready -> 2 [] OTHER -> 3

\* the status the admin page's button of an order requests
NextStatus(s) == CASE s = Pending -> Preparing [] s = Preparing -> Ready [] OTHER -> Completed

NoCustomer == "none"             \* customerId absent

\* new ObjectId(s) succeeds on well-formed ids only
isValidObjectId(s) == s \in Restaurants \cup {NoRestaurant} \cup Users

\* An order: items stands for the items and pricing fields fixed at checkout,
\* keys for the order of the keys of the JSON object.
MkOrder(id, cust, st, items, keys) ==
    [id |-> id, customerId |-> cust, status |-> st, items |-> items, keys |-> keys]

\* ---------------------------------------------------------- pure functions
\* JSON.stringify of an order: the text depends on the values and on the key order
JsonStringify(o) == <<o.keys, o.id, o.customerId, o.status, o.items>>

Ids(list) == {list[i].id : i \in 1..Len(list)}

\* currentOrders.find((o) => o.id === id): index of the first match, 0 if none
FindIndex(list, id) ==
    IF id \in Ids(list)
    THEN CHOOSE i \in 1..Len(list) : list[i].id = id /\ \A j \in 1..(i-1) : list[j].id # id
    ELSE 0

\* [...new Map(list.map((o) => [o.id, o])).values()]: a key keeps the position
\* of its first occurrence and the value of its last one
RECURSIVE MapValues(_, _)
MapValues(list, acc) ==
    IF list = <<>> THEN acc
    ELSE LET o == Head(list)
             k == FindIndex(acc, o.id)
         IN MapValues(Tail(list), IF k = 0 THEN Append(acc, o) ELSE [acc EXCEPT ![k] = o])

\* mutant of DedupById: the first occurrence of an id survives
DedupById_FirstWins(list) == SelectSeq(list, LAMBDA o : o = list[FindIndex(list, o.id)])

DedupById(list) == MapValues(list, <<>>)

\* mutant of ChangedTest: every order of the message counts as changed
ChangedTest_Always(current, u) == TRUE

ChangedTest(current, u) ==
    LET k == FindIndex(current, u.id)
    IN k = 0 \/ JsonStringify(current[k]) # JsonStringify(u)

\* updatedOrders.filter(...) of the message handler
changedOrders(current, updated) ==
    SelectSeq(updated, LAMBDA u : ChangedTest(current, u))

KeepTest(updated, o) == o.id \notin Ids(updated)

\* mutant of mergedOrders: the version of the current list survives
mergedOrders_CurrentWins(current, updated) == DedupById(updated \o current)

\* the list the message handler persists and broadcasts
mergedOrders(current, updated) ==
    DedupById(SelectSeq(current, LAMBDA o : KeepTest(updated, o)) \o updated)

\* --------------------------------------------------------------- registry
\* mutant of addClient: a socket that is in the set already is taken out
addClient_Toggles(reg, rid, c) ==
    LET base == IF rid \in DOMAIN reg THEN reg ELSE reg @@ (rid :> {})
    IN [base EXCEPT ![rid] = IF c \in @ THEN @ \ {c} ELSE @ \cup {c}]

\* restaurantClients: Map<string, Set<WebSocket>>, a function on its keys
addClient(reg, rid, c) ==
    LET base == IF rid \in DOMAIN reg THEN reg ELSE reg @@ (rid :> {})
    IN [base EXCEPT ![rid] = @ \cup {c}]

\* mutant of removeClient: the emptied set stays in the map
removeClient_KeepsEmptySet(reg, rid, c) ==
    IF rid \notin DOMAIN reg THEN reg ELSE [reg EXCEPT ![rid] = @ \ {c}]

removeClient(reg, rid, c) ==
    IF rid \notin DOMAIN reg THEN reg
    ELSE IF reg[rid] \ {c} = {}
         THEN [k \in (DOMAIN reg) \ {rid} |-> reg[k]]
         ELSE [reg EXCEPT ![rid] = @ \ {c}]

\* mutant of getClients: the sets of all restaurants are handed out
getClients_AllRestaurants(reg, rid) == UNION {reg[k] : k \in DOMAIN reg}

getClients(reg, rid) == IF rid \in DOMAIN reg THEN reg[rid] ELSE {}

\* ------------------------------------------------------------------ state
VARIABLES
    ledger,         \* restaurants collection: restaurant id -> activeOrders
    pendingOrders,  \* pendingOrders collection: set of documents
    sessions,       \* checkout sessions of the payment provider: order id -> metadata
    pastOrders,     \* users collection: user id -> pastOrders (receipts)
    emails,         \* status mails handed to sendEmail
    registry,       \* restaurantClients of wsStore
    chan,           \* per WebSocket: readyState, restaurant of its URL, position of SOCKET
    inbox,          \* per WebSocket: messages sent by the server, not yet handled by the client
    local,          \* per client: the orders state of useActiveOrders
    task,           \* runs of the message listener, one per received message
    hook            \* runs of the webhook POST, one per delivered event

vars == <<ledger, pendingOrders, sessions, pastOrders, emails, registry, chan, inbox, local, task, hook>>

NoSession == [id |-> <<>>, userId |-> "none", restaurantId |-> "none", pendingOrderId |-> "none"]
NoTask == [pc |-> "free", chan |-> "c1", kind |-> "ok", rid |-> "r1", orders |-> <<>>,
           current |-> <<>>, idx |-> 0, outcome |-> "none"]
NoHook == [pc |-> "free", sid |-> "o1", read |-> <<>>, status |-> 0]
NoChan == [state |-> "new", rid |-> "r1", pc |-> "idle", snap |-> <<>>]

Init ==
    /\ ledger = [r \in Restaurants |-> <<>>]
    /\ pendingOrders = {}
    /\ sessions = [o \in OrderIds |-> NoSession]
    /\ pastOrders = [u \in Users |-> <<>>]
    /\ emails = {}
    /\ registry = [k \in {} |-> {}]
    /\ chan = [c \in Channels |-> NoChan]
    /\ inbox = [c \in Channels |-> <<>>]
    /\ local = [c \in Channels |-> <<>>]
    /\ task = [t \in Tasks |-> NoTask]
    /\ hook = [h \in Hooks |-> NoHook]

\* a server -> client message
Snapshot(rid, orders) == [restaurantId |-> rid, orders |-> orders]

\* mutant of SendTo: the readyState is not looked at
SendTo_IgnoresReadyState(box, clients, msg) ==
    [c \in Channels |-> IF c \in clients THEN Append(box[c], msg) ELSE box[c]]

\* client.send(data) for every client of the set whose readyState is OPEN
SendTo(box, clients, msg) ==
    [c \in Channels |-> IF c \in clients /\ chan[c].state = "open" THEN Append(box[c], msg) ELSE box[c]]

\* broadcastToRestaurant(restaurantId, message)
broadcastToRestaurant(box, rid, msg) ==
    IF rid \notin DOMAIN registry \/ registry[rid] = {} THEN box
    ELSE SendTo(box, registry[rid], msg)

\* -------------------------------------------------- SOCKET (orders/route.ts)
ConnectIds == Restaurants

\* mutant of Connect: the socket is registered under the key of r1
Connect_RegistersUnderR1(c, rid) ==
    /\ chan[c].state = "new"
    /\ registry' = addClient(registry, "r1", c)
    /\ chan' = [chan EXCEPT ![c] = [state |-> "open", rid |-> rid,
                                    pc |-> IF isValidObjectId(rid) THEN "fetching" ELSE "failed",
                                    snap |-> <<>>]]
    /\ UNCHANGED <<ledger, pendingOrders, sessions, pastOrders, emails, inbox, local, task, hook>>

\* lines 39-44: a client connects on the URL of rid; the socket is registered,
\* then the restaurant is looked up (new ObjectId throws on a malformed id and
\* the handler ends there)
Connect(c, rid) ==
    /\ chan[c].state = "new"
    /\ registry' = addClient(registry, rid, c)
    /\ chan' = [chan EXCEPT ![c] = [state |-> "open", rid |-> rid,
                                    pc |-> IF isValidObjectId(rid) THEN "fetching" ELSE "failed",
                                    snap |-> <<>>]]
    /\ UNCHANGED <<ledger, pendingOrders, sessions, pastOrders, emails, inbox, local, task, hook>>

\* line 44: findOne answers with the restaurant's document
ConnectFetch(c) ==
    /\ chan[c].pc = "fetching"
    /\ chan' = [chan EXCEPT ![c].pc = "sending",
                            ![c].snap = IF chan[c].rid \in Restaurants THEN ledger[chan[c].rid] ELSE <<>>]
    /\ UNCHANGED <<ledger, pendingOrders, sessions, pastOrders, emails, registry, inbox, local, task, hook>>

\* lines 47-71: the initial snapshot is sent (a send on a closed socket is
\* dropped) and the close and message listeners are attached
ConnectSend(c) ==
    /\ chan[c].pc = "sending"
    /\ inbox' = [inbox EXCEPT ![c] = IF chan[c].state = "open"
                                      THEN Append(@, Snapshot(chan[c].rid, chan[c].snap)) ELSE @]
    /\ chan' = [chan EXCEPT ![c].pc = "ready", ![c].snap = <<>>]
    /\ UNCHANGED <<ledger, pendingOrders, sessions, pastOrders, emails, registry, local, task, hook>>

\* the socket closes (client left, transport error); the close listener of
\* lines 55-57 runs only when it is attached already.  The client's messages
\* still under way are lost with the socket.
Disconnect(c) ==
    /\ chan[c].state = "open"
    /\ chan' = [chan EXCEPT ![c].state = "closed"]
    /\ registry' = IF chan[c].pc = "ready" THEN removeClient(registry, chan[c].rid, c) ELSE registry
    /\ inbox' = [inbox EXCEPT ![c] = <<>>]
    /\ UNCHANGED <<ledger, pendingOrders, sessions, pastOrders, emails, local, task, hook>>

\* ---------------------------------------- client hook (websocketHooks.ts)
\* the setOrders updater of lines 89-106 and 155-166: the entry of the
\* message's restaurant is replaced by the id-deduplicated list
ReplaceEntry(entries, msg) ==
    LET deduped == DedupById(msg.orders)
        hit == {i \in 1..Len(entries) : entries[i].restaurantId = msg.restaurantId}
    IN IF hit # {}
       THEN [entries EXCEPT ![CHOOSE i \in hit : \A j \in hit : i <= j] = Snapshot(msg.restaurantId, deduped)]
       ELSE Append(entries, Snapshot(msg.restaurantId, deduped))

\* lines 83-107: the client handles the next message of the server
Deliver(c) ==
    /\ chan[c].state = "open"
    /\ inbox[c] # <<>>
    /\ local' = [local EXCEPT ![c] = ReplaceEntry(@, Head(inbox[c]))]
    /\ inbox' = [inbox EXCEPT ![c] = Tail(@)]
    /\ UNCHANGED <<ledger, pendingOrders, sessions, pastOrders, emails, registry, chan, task, hook>>

\* the first free run of the message listener, 0 when the bound is reached
FreeTask == IF \E t \in Tasks : task[t].pc = "free"
            THEN CHOOSE t \in Tasks : task[t].pc = "free" /\ \A u \in Tasks : task[u].pc = "free" => t <= u
            ELSE 0

NewTask(c, kind, rid, orders) ==
    [pc |-> "recv", chan |-> c, kind |-> kind, rid |-> rid, orders |-> orders,
     current |-> <<>>, idx |-> 0, outcome |-> "none"]

\* every order of the client's state, orders.flatMap((o) => o.orders)
RECURSIVE allActiveOrders(_)
allActiveOrders(entries) ==
    IF entries = <<>> THEN <<>> ELSE Head(entries).orders \o allActiveOrders(Tail(entries))

\* prevOrders.find((o) => o.restaurantId === restaurantId)?.orders || []
restaurantOrders(entries, rid) ==
    LET hit == {i \in 1..Len(entries) : entries[i].restaurantId = rid}
    IN IF hit = {} THEN <<>> ELSE entries[CHOOSE i \in hit : \A j \in hit : i <= j].orders

DropTest(id, o) == o.id # id

\* updateOrderStatus of the admin page: the message the page hands to setOrder
updateOrderStatus(entries, rid, order, st) ==
    LET updatedOrder == [order EXCEPT !.status = st]
        rest == SelectSeq(restaurantOrders(entries, rid), LAMBDA o : DropTest(updatedOrder.id, o))
    IN Snapshot(rid, DedupById(Append(rest, updatedOrder)))

\* mutant of AdminAdvance: setOrder does not look at the socket's readyState
AdminAdvance_IgnoresReadyState(c, i) ==
    /\ FreeTask # 0
    /\ i \in 1..Len(allActiveOrders(local[c]))
    /\ LET order == allActiveOrders(local[c])[i]
           msg == updateOrderStatus(local[c], chan[c].rid, order, NextStatus(order.status))
       IN /\ order.status # Completed
          /\ task' = [task EXCEPT ![FreeTask] = NewTask(c, "ok", msg.restaurantId, msg.orders)]
          /\ local' = [local EXCEPT ![c] = ReplaceEntry(@, msg)]
    /\ UNCHANGED <<ledger, pendingOrders, sessions, pastOrders, emails, registry, chan, inbox, hook>>

\* an admin presses the button of an order card (only orders that are not
\* completed have one); setOrder sends the message when the socket is open
\* and replaces the local entry
AdminAdvance(c, i) ==
    /\ chan[c].state = "open"
    /\ FreeTask # 0
    /\ i \in 1..Len(allActiveOrders(local[c]))
    /\ LET order == allActiveOrders(local[c])[i]
           msg == updateOrderStatus(local[c], chan[c].rid, order, NextStatus(order.status))
       IN /\ order.status # Completed
          /\ task' = [task EXCEPT ![FreeTask] = NewTask(c, "ok", msg.restaurantId, msg.orders)]
          /\ local' = [local EXCEPT ![c] = ReplaceEntry(@, msg)]
    /\ UNCHANGED <<ledger, pendingOrders, sessions, pastOrders, emails, registry, chan, inbox, hook>>

\* a client -> server message; kind tells how far JSON.parse and the
\* destructuring of line 74 get with its text
Message(kind, rid, orders) == [kind |-> kind, restaurantId |-> rid, orders |-> orders]

\* any text may arrive on a socket whose message listener is attached
RawSend(c, m) ==
    /\ chan[c].state = "open"
    /\ chan[c].pc = "ready"
    /\ FreeTask # 0
    /\ task' = [task EXCEPT ![FreeTask] = NewTask(c, m.kind, m.restaurantId, m.orders)]
    /\ UNCHANGED <<ledger, pendingOrders, sessions, pastOrders, emails, registry, chan, inbox, local, hook>>

\* ------------------------------ message listener (orders/route.ts 71-208)
\* index of the first order at or after i that has a customerId
RECURSIVE ScanCustomer(_, _)
ScanCustomer(changed, i) ==
    IF i > Len(changed) THEN i
    ELSE IF changed[i].customerId = NoCustomer THEN ScanCustomer(changed, i + 1)
    ELSE i

Finish(rec, outcome) == [rec EXCEPT !.pc = "done", !.outcome = outcome, !.orders = <<>>, !.current = <<>>, !.idx = 0]

\* the for loop of lines 95-98 from its i-th round up to the next await:
\* orders without customer are skipped, new ObjectId(customerId) may throw
\* into the catch of line 205, after the last round the merge and the
\* ledger write follow
NotifyFrom(rec, i) ==
    LET changed == changedOrders(rec.current, rec.orders)
        j == ScanCustomer(changed, i)
    IN IF j > Len(changed) THEN [rec EXCEPT !.pc = "persist", !.idx = 0]
       ELSE IF ~isValidObjectId(changed[j].customerId) THEN Finish(rec, "notifyError")
       ELSE [rec EXCEPT !.pc = "receipt", !.idx = j]

\* the order of the current round of the loop
RoundOrder(rec) == changedOrders(rec.current, rec.orders)[rec.idx]

\* mutant of HandleMessage: a missing orders array is read as an empty list
HandleMessage_DefaultsOrders(t) ==
    /\ task[t].pc = "recv"
    /\ LET m == task[t]
       IN task' = [task EXCEPT ![t] =
            IF m.kind = "notJson" THEN Finish(m, "parseError")
            ELSE IF m.kind = "noRestaurantId" THEN Finish(m, "notFound")
            ELSE IF ~isValidObjectId(m.rid) THEN Finish(m, "parseError")
            ELSE IF m.rid \notin Restaurants THEN Finish(m, "notFound")
            ELSE NotifyFrom([m EXCEPT !.current = ledger[m.rid]], 1)]
    /\ UNCHANGED <<ledger, pendingOrders, sessions, pastOrders, emails, registry, chan, inbox, local, hook>>

\* lines 73-92: parse, look the restaurant up, find the changed orders
HandleMessage(t) ==
    /\ task[t].pc = "recv"
    /\ LET m == task[t]
       IN task' = [task EXCEPT ![t] =
            IF m.kind = "notJson" THEN Finish(m, "parseError")
            ELSE IF m.kind = "noRestaurantId" THEN Finish(m, "notFound")
            ELSE IF ~isValidObjectId(m.rid) THEN Finish(m, "parseError")
            ELSE IF m.rid \notin Restaurants THEN Finish(m, "notFound")
            ELSE IF m.kind = "noOrders" THEN Finish(m, "parseError")
            ELSE NotifyFrom([m EXCEPT !.current = ledger[m.rid]], 1)]
    /\ UNCHANGED <<ledger, pendingOrders, sessions, pastOrders, emails, registry, chan, inbox, local, hook>>

\* $set of "pastOrders.$.status": the first receipt with the id
SetReceipt(receipts, id, st) ==
    LET k == FindIndex(receipts, id) IN [receipts EXCEPT ![k].status = st]

\* lines 101-114: the customer's receipt takes the status of the order
ReceiptUpdate(t) ==
    /\ task[t].pc = "receipt"
    /\ LET m == task[t]
           order == RoundOrder(m)
           matched == order.customerId \in Users /\ order.id \in Ids(pastOrders[order.customerId])
       IN /\ pastOrders' = IF matched
                           THEN [pastOrders EXCEPT ![order.customerId] = SetReceipt(@, order.id, order.status)]
                           ELSE pastOrders
          /\ task' = [task EXCEPT ![t] = IF matched THEN [m EXCEPT !.pc = "email"]
                                         ELSE NotifyFrom(m, m.idx + 1)]
    /\ UNCHANGED <<ledger, pendingOrders, sessions, emails, registry, chan, inbox, local, hook>>

\* the update of the users collection fails: the catch of line 205 ends the run
ReceiptFail(t) ==
    /\ task[t].pc = "receipt"
    /\ task' = [task EXCEPT ![t] = Finish(@, "notifyError")]
    /\ UNCHANGED <<ledger, pendingOrders, sessions, pastOrders, emails, registry, chan, inbox, local, hook>>

HasEmail(u) == u \in Users

\* lines 116-185: the customer is read and the mail is sent
EmailSend(t) ==
    /\ task[t].pc = "email"
    /\ LET m == task[t]
           order == RoundOrder(m)
       IN /\ emails' = IF HasEmail(order.customerId)
                       THEN emails \cup {[to |-> order.customerId, id |-> order.id, status |-> order.status]}
                       ELSE emails
          /\ task' = [task EXCEPT ![t] = NotifyFrom(m, m.idx + 1)]
    /\ UNCHANGED <<ledger, pendingOrders, sessions, pastOrders, registry, chan, inbox, local, hook>>

\* lines 183-188: sendEmail throws, the inner catch logs it and the loop goes on
EmailFail(t) ==
    /\ task[t].pc = "email"
    /\ HasEmail(RoundOrder(task[t]).customerId)
    /\ task' = [task EXCEPT ![t] = NotifyFrom(@, @.idx + 1)]
    /\ UNCHANGED <<ledger, pendingOrders, sessions, pastOrders, emails, registry, chan, inbox, local, hook>>

\* line 116: the read of the customer fails: the catch of line 205 ends the run
LookupFail(t) ==
    /\ task[t].pc = "email"
    /\ task' = [task EXCEPT ![t] = Finish(@, "notifyError")]
    /\ UNCHANGED <<ledger, pendingOrders, sessions, pastOrders, emails, registry, chan, inbox, local, hook>>

\* lines 192-196: the merged list replaces activeOrders
Persist(t) ==
    /\ task[t].pc = "persist"
    /\ ledger' = [ledger EXCEPT ![task[t].rid] = mergedOrders(task[t].current, task[t].orders)]
    /\ task' = [task EXCEPT ![t].pc = "broadcast"]
    /\ UNCHANGED <<pendingOrders, sessions, pastOrders, emails, registry, chan, inbox, local, hook>>

\* mutant of PersistFail: the failure is swallowed and the broadcast goes out
PersistFail_StillBroadcasts(t) ==
    /\ task[t].pc = "persist"
    /\ inbox' = SendTo(inbox, getClients(registry, task[t].rid),
                       Snapshot(task[t].rid, mergedOrders(task[t].current, task[t].orders)))
    /\ task' = [task EXCEPT ![t] = Finish(@, "persistError")]
    /\ UNCHANGED <<ledger, pendingOrders, sessions, pastOrders, emails, registry, chan, local, hook>>

\* line 196: the write fails: the catch of line 205 ends the run
PersistFail(t) ==
    /\ task[t].pc = "persist"
    /\ task' = [task EXCEPT ![t] = Finish(@, "persistError")]
    /\ UNCHANGED <<ledger, pendingOrders, sessions, pastOrders, emails, registry, chan, inbox, local, hook>>

\* lines 199-204: the merged list goes to the open clients of the restaurant
Broadcast(t) ==
    /\ task[t].pc = "broadcast"
    /\ inbox' = SendTo(inbox, getClients(registry, task[t].rid),
                       Snapshot(task[t].rid, mergedOrders(task[t].current, task[t].orders)))
    /\ task' = [task EXCEPT ![t] = Finish(@, "broadcast")]
    /\ UNCHANGED <<ledger, pendingOrders, sessions, pastOrders, emails, registry, chan, local, hook>>

\* ------------------------------------------- checkout (payments/route.ts)
\* the id of the checkout session the payment provider creates for order o
SessionId(o) == <<"cs", o>>

\* uuid v4: an id no order has yet
FreshId == LET free == {i \in 1..Len(OrderSeq) : sessions[OrderSeq[i]] = NoSession}
           IN IF free = {} THEN "none" ELSE OrderSeq[CHOOSE i \in free : \A j \in free : i <= j]

\* lines 132-195: the pending order is inserted and a checkout session is
\* created whose metadata names user, restaurant and pending order
Checkout(r, u) ==
    /\ FreshId # "none"
    /\ LET o == FreshId
       IN /\ pendingOrders' = pendingOrders \cup {[_id |-> o, order |-> MkOrder(o, u, Pending, "i1", "std")]}
          /\ sessions' = [sessions EXCEPT ![o] = [id |-> SessionId(o), userId |-> u, restaurantId |-> r,
                                                  pendingOrderId |-> o]]
    /\ UNCHANGED <<ledger, pastOrders, emails, registry, chan, inbox, local, task, hook>>

\* ---------------------------------------------- webhook (webhook/route.ts)
FreeHook == IF \E h \in Hooks : hook[h].pc = "free"
            THEN CHOOSE h \in Hooks : hook[h].pc = "free" /\ \A g \in Hooks : hook[g].pc = "free" => h <= g
            ELSE 0

Metadata(h) == sessions[hook[h].sid]

\* pendingOrdersCollection.findOne({ _id })
FindPending(id) == {d \in pendingOrders : d._id = id}

\* the payment provider delivers checkout.session.completed (or
\* async_payment_succeeded) of a session, and may deliver it again;
\* lines 87-107: user, restaurant and pending order are looked up
WebhookDeliver(o) ==
    /\ sessions[o] # NoSession
    /\ FreeHook # 0
    /\ hook' = [hook EXCEPT ![FreeHook] =
                  IF FindPending(sessions[o].pendingOrderId) = {}
                  THEN [pc |-> "done", sid |-> o, read |-> <<>>, status |-> 404]
                  ELSE [pc |-> "push", sid |-> o, read |-> <<>>, status |-> 0]]
    /\ UNCHANGED <<ledger, pendingOrders, sessions, pastOrders, emails, registry, chan, inbox, local, task>>

\* the order the webhook builds from the pending order (lines 110-114)
NewOrder(h) == (CHOOSE d \in pendingOrders \cup {[_id |-> Metadata(h).pendingOrderId,
                    order |-> MkOrder(Metadata(h).pendingOrderId, Metadata(h).userId, Pending, "i1", "std")]} :
                    d._id = Metadata(h).pendingOrderId).order

\* line 117: $push of the new order to activeOrders
WebhookPush(h) ==
    /\ hook[h].pc = "push"
    /\ ledger' = [ledger EXCEPT ![Metadata(h).restaurantId] = Append(@, NewOrder(h))]
    /\ hook' = [hook EXCEPT ![h].pc = "delete"]
    /\ UNCHANGED <<pendingOrders, sessions, pastOrders, emails, registry, chan, inbox, local, task>>

\* deleteOne({ sessionId }): one document whose sessionId field has the value
deleteOne(docs, sid) ==
    LET hit == {d \in docs : "sessionId" \in DOMAIN d /\ d.sessionId = sid}
    IN IF hit = {} THEN docs ELSE docs \ {CHOOSE d \in hit : TRUE}

\* line 120
WebhookDelete(h) ==
    /\ hook[h].pc = "delete"
    /\ pendingOrders' = deleteOne(pendingOrders, Metadata(h).id)
    /\ hook' = [hook EXCEPT ![h].pc = "receipt"]
    /\ UNCHANGED <<ledger, sessions, pastOrders, emails, registry, chan, inbox, local, task>>

\* lines 123-140: the receipt is pushed to the user's pastOrders
WebhookReceipt(h) ==
    /\ hook[h].pc = "receipt"
    /\ pastOrders' = [pastOrders EXCEPT ![Metadata(h).userId] =
                         Append(@, [id |-> Metadata(h).pendingOrderId, status |-> Pending])]
    /\ hook' = [hook EXCEPT ![h].pc = "reread"]
    /\ UNCHANGED <<ledger, pendingOrders, sessions, emails, registry, chan, inbox, local, task>>

\* line 143: the restaurant is read again
WebhookReread(h) ==
    /\ hook[h].pc = "reread"
    /\ hook' = [hook EXCEPT ![h].pc = "broadcast", ![h].read = ledger[Metadata(h).restaurantId]]
    /\ UNCHANGED <<ledger, pendingOrders, sessions, pastOrders, emails, registry, chan, inbox, local, task>>

\* mutant of WebhookBroadcast: only the new order is sent
WebhookBroadcast_SendsNewOrderOnly(h) ==
    /\ hook[h].pc = "broadcast"
    /\ inbox' = broadcastToRestaurant(inbox, Metadata(h).restaurantId,
                                      Snapshot(Metadata(h).restaurantId, <<NewOrder(h)>>))
    /\ hook' = [hook EXCEPT ![h].pc = "done", ![h].status = 200, ![h].read = <<>>]
    /\ UNCHANGED <<ledger, pendingOrders, sessions, pastOrders, emails, registry, chan, local, task>>

\* lines 146-152: the list read is broadcast, the answer is 200
WebhookBroadcast(h) ==
    /\ hook[h].pc = "broadcast"
    /\ inbox' = broadcastToRestaurant(inbox, Metadata(h).restaurantId,
                                      Snapshot(Metadata(h).restaurantId, hook[h].read))
    /\ hook' = [hook EXCEPT ![h].pc = "done", ![h].status = 200, ![h].read = <<>>]
    /\ UNCHANGED <<ledger, pendingOrders, sessions, pastOrders, emails, registry, chan, local, task>>

\* ---------------------------------------------------------- specifications
\* The payment flow and the life of the sockets, from the start of the server.
Next ==
    \/ \E c \in Channels, rid \in ConnectIds : Connect(c, rid)
    \/ \E c \in Channels : ConnectFetch(c)
    \/ \E c \in Channels : ConnectSend(c)
    \/ \E c \in Channels : Disconnect(c)
    \/ \E r \in Restaurants, u \in Users : Checkout(r, u)
    \/ \E o \in OrderIds : WebhookDeliver(o)
    \/ \E h \in Hooks : WebhookPush(h)
    \/ \E h \in Hooks : WebhookDelete(h)
    \/ \E h \in Hooks : WebhookReceipt(h)
    \/ \E h \in Hooks : WebhookReread(h)
    \/ \E h \in Hooks : WebhookBroadcast(h)

Spec == Init /\ [][Next]_vars

\* The state after one order of u1 at r1 was paid and the webhook has handled
\* the event, before any socket is connected.
PaidOrder == MkOrder("o1", "u1", Pending, "i1", "std")
InitPaid ==
    /\ ledger = [r \in Restaurants |-> IF r = "r1" THEN <<PaidOrder>> ELSE <<>>]
    /\ pendingOrders = {[_id |-> "o1", order |-> PaidOrder]}
    /\ sessions = [o \in OrderIds |-> IF o = "o1"
                     THEN [id |-> SessionId(o), userId |-> "u1", restaurantId |-> "r1", pendingOrderId |-> o]
                     ELSE NoSession]
    /\ pastOrders = [u \in Users |-> <<[id |-> "o1", status |-> Pending]>>]
    /\ emails = {}
    /\ registry = [k \in {} |-> {}]
    /\ chan = [c \in Channels |-> NoChan]
    /\ inbox = [c \in Channels |-> <<>>]
    /\ local = [c \in Channels |-> <<>>]
    /\ task = [t \in Tasks |-> NoTask]
    /\ hook = [h \in Hooks |-> IF h = 1 THEN [pc |-> "done", sid |-> "o1", read |-> <<>>, status |-> 200]
                                ELSE NoHook]

\* the update messages of the update pipeline's runs: the paid order advanced,
\* and an order whose customerId is no ObjectId, for either restaurant
UpdateMsgs ==
    {Message("ok", r, l) : r \in Restaurants,
                           l \in {<<MkOrder("o1", "u1", Preparing, "i1", "std")>>,
                                  <<MkOrder("o2", BadId, Pending, "i1", "std")>>}}

\* The update pipeline: sockets connect and send updates while the payment
\* provider may deliver the event of the paid order again.
NextUpdate ==
    \/ \E c \in Channels, rid \in ConnectIds : Connect(c, rid)
    \/ \E c \in Channels : ConnectFetch(c)
    \/ \E c \in Channels : ConnectSend(c)
    \/ \E c \in Channels, m \in UpdateMsgs : RawSend(c, m)
    \/ \E t \in Tasks : HandleMessage(t)
    \/ \E t \in Tasks : ReceiptUpdate(t)
    \/ \E t \in Tasks : ReceiptFail(t)
    \/ \E t \in Tasks : EmailSend(t)
    \/ \E t \in Tasks : EmailFail(t)
    \/ \E t \in Tasks : LookupFail(t)
    \/ \E t \in Tasks : Persist(t)
    \/ \E t \in Tasks : PersistFail(t)
    \/ \E t \in Tasks : Broadcast(t)
    \/ \E o \in OrderIds : WebhookDeliver(o)
    \/ \E h \in Hooks : WebhookPush(h)
    \/ \E h \in Hooks : WebhookDelete(h)
    \/ \E h \in Hooks : WebhookReceipt(h)
    \/ \E h \in Hooks : WebhookReread(h)
    \/ \E h \in Hooks : WebhookBroadcast(h)

SpecUpdate == InitPaid /\ [][NextUpdate]_vars

\* The admin page: admins of r1 watch the orders and press the status
\* buttons while further orders are paid.
NextAdmin ==
    \/ \E c \in Channels : Connect(c, "r1")
    \/ \E c \in Channels : ConnectFetch(c)
    \/ \E c \in Channels : ConnectSend(c)
    \/ \E c \in Channels : Deliver(c)
    \/ \E c \in Channels, i \in 1..Len(OrderSeq) : AdminAdvance(c, i)
    \/ \E t \in Tasks : HandleMessage(t)
    \/ \E t \in Tasks : ReceiptUpdate(t)
    \/ \E t \in Tasks : EmailSend(t)
    \/ \E t \in Tasks : Persist(t)
    \/ \E t \in Tasks : Broadcast(t)
    \/ \E u \in Users : Checkout("r1", u)
    \/ WebhookDeliver("o2")
    \/ \E h \in Hooks : WebhookPush(h)
    \/ \E h \in Hooks : WebhookDelete(h)
    \/ \E h \in Hooks : WebhookReceipt(h)
    \/ \E h \in Hooks : WebhookReread(h)
    \/ \E h \in Hooks : WebhookBroadcast(h)

SpecAdmin == InitPaid /\ [][NextAdmin]_vars

\* the messages of the runs about discarded updates: text that is no JSON, an
\* object without restaurantId, an object without an orders array, and the
\* paid order advanced
MalformedKinds == {"notJson", "noRestaurantId", "noOrders"}
DiscardMsgs ==
    {Message(k, "r1", <<>>) : k \in MalformedKinds}
        \cup {Message("ok", "r1", <<MkOrder("o1", "u1", Preparing, "i1", "std")>>)}

\* Discarded updates: sockets connect and send well-formed and malformed
\* text, and the ledger write may fail.
NextDiscard ==
    \/ \E c \in Channels, rid \in ConnectIds : Connect(c, rid)
    \/ \E c \in Channels : ConnectFetch(c)
    \/ \E c \in Channels : ConnectSend(c)
    \/ \E c \in Channels, m \in DiscardMsgs : RawSend(c, m)
    \/ \E t \in Tasks : HandleMessage(t)
    \/ \E t \in Tasks : ReceiptUpdate(t)
    \/ \E t \in Tasks : EmailSend(t)
    \/ \E t \in Tasks : Persist(t)
    \/ \E t \in Tasks : PersistFail(t)
    \/ \E t \in Tasks : Broadcast(t)

SpecDiscard == InitPaid /\ [][NextDiscard]_vars

\* the messages of the fan-out runs: the paid order advanced, for either restaurant
FanOutMsgs == {Message("ok", r, <<MkOrder("o1", "u1", Preparing, "i1", "std")>>) : r \in Restaurants}

\* Fan-out: sockets come and go while updates arrive from sockets and the
\* payment provider delivers the event of the paid order again.
NextFanOut ==
    \/ \E c \in Channels, rid \in ConnectIds : Connect(c, rid)
    \/ \E c \in Channels : ConnectFetch(c)
    \/ \E c \in Channels : ConnectSend(c)
    \/ \E c \in Channels : Disconnect(c)
    \/ \E c \in Channels, m \in FanOutMsgs : RawSend(c, m)
    \/ \E t \in Tasks : HandleMessage(t)
    \/ \E t \in Tasks : ReceiptUpdate(t)
    \/ \E t \in Tasks : EmailSend(t)
    \/ \E t \in Tasks : Persist(t)
    \/ \E t \in Tasks : Broadcast(t)
    \/ WebhookDeliver("o1")
    \/ \E h \in Hooks : WebhookPush(h)
    \/ \E h \in Hooks : WebhookDelete(h)
    \/ \E h \in Hooks : WebhookReceipt(h)
    \/ \E h \in Hooks : WebhookReread(h)
    \/ \E h \in Hooks : WebhookBroadcast(h)

SpecFanOut == InitPaid /\ [][NextFanOut]_vars

\* the orders the reconciliation is run on: versions of o1 that differ in
\* status, in the fields fixed at checkout and in the order of their keys,
\* and two versions of o2
Versions ==
    {MkOrder("o1", "u1", st, it, k) : st \in {Pending, Preparing}, it \in {"i1", "i2"}, k \in {"std", "alt"}}
        \cup {MkOrder("o2", "u1", st, "i1", "std") : st \in {Pending, Preparing}}

Lists(n) == UNION {[1..k -> Versions] : k \in 0..n}

UniqueIds(list) == Cardinality(Ids(list)) = Len(list)

\* The state in which an update message has just arrived on the only socket
\* of r1: the ledger list of r1 came from an earlier message of the socket
\* (no order was paid), the new message carries any list of orders.
InitReconcile ==
    \E cur \in {l \in Lists(MaxLen) : UniqueIds(l)}, inc \in Lists(MaxLen) :
        /\ ledger = [r \in Restaurants |-> IF r = "r1" THEN cur ELSE <<>>]
        /\ pendingOrders = {}
        /\ sessions = [o \in OrderIds |-> NoSession]
        /\ pastOrders = [u \in Users |-> <<>>]
        /\ emails = {}
        /\ registry = addClient([k \in {} |-> {}], "r1", "c1")
        /\ chan = [c \in Channels |-> IF c = "c1"
                      THEN [state |-> "open", rid |-> "r1", pc |-> "ready", snap |-> <<>>] ELSE NoChan]
        /\ inbox = [c \in Channels |-> <<>>]
        /\ local = [c \in Channels |-> IF c = "c1" THEN <<Snapshot("r1", cur)>> ELSE <<>>]
        /\ task = [t \in Tasks |-> IF t = 1 THEN Finish(NewTask("c1", "ok", "r1", <<>>), "broadcast")
                                    ELSE IF t = 2 THEN NewTask("c1", "ok", "r1", inc)
                                    ELSE NoTask]
        /\ hook = [h \in Hooks |-> NoHook]

\* The reconciliation of one message: the message handler runs on the drawn
\* ledger list and the drawn message.
NextReconcile ==
    \/ \E t \in Tasks : HandleMessage(t)
    \/ \E t \in Tasks : ReceiptUpdate(t)
    \/ \E t \in Tasks : Persist(t)
    \/ \E t \in Tasks : Broadcast(t)

SpecReconcile == InitReconcile /\ [][NextReconcile]_vars

\* the messages of the notification runs, all for r1: the paid order
\* advanced, the paid order with other items, and a second order that has
\* the paying customer but no receipt, no customer, or a customer id without
\* a user document
NotifyMsgs ==
    {Message("ok", "r1", <<o>>) :
        o \in {MkOrder("o1", "u1", Preparing, "i1", "std"),
               MkOrder("o1", "u1", Pending, "i2", "std"),
               MkOrder("o2", "u1", Pending, "i1", "std"),
               MkOrder("o2", NoCustomer, Pending, "i1", "std"),
               MkOrder("o2", NoRestaurant, Pending, "i1", "std")}}

\* Notification: sockets connect and send updates; no database call and no
\* mail fails.
NextNotify ==
    \/ \E c \in Channels, rid \in ConnectIds : Connect(c, rid)
    \/ \E c \in Channels : ConnectFetch(c)
    \/ \E c \in Channels : ConnectSend(c)
    \/ \E c \in Channels, m \in NotifyMsgs : RawSend(c, m)
    \/ \E t \in Tasks : HandleMessage(t)
    \/ \E t \in Tasks : ReceiptUpdate(t)
    \/ \E t \in Tasks : EmailSend(t)
    \/ \E t \in Tasks : Persist(t)
    \/ \E t \in Tasks : Broadcast(t)

SpecNotify == InitPaid /\ [][NextNotify]_vars

\* the messages of the batch runs, all for r1, two orders each: an order
\* whose customerId is no ObjectId before the paid order advanced, and the
\* paid order twice, advanced by one and by two steps
BatchMsgs ==
    {Message("ok", "r1", l) :
        l \in {<<MkOrder("o2", BadId, Pending, "i1", "std"), MkOrder("o1", "u1", Preparing, "i1", "std")>>,
               <<MkOrder("o1", "u1", Preparing, "i1", "std"), MkOrder("o1", "u1", Ready, "i1", "std")>>}}

\* Batches: sockets connect and send updates of several orders; the calls of
\* the notification loop may fail.
NextBatch ==
    \/ \E c \in Channels, rid \in ConnectIds : Connect(c, rid)
    \/ \E c \in Channels : ConnectFetch(c)
    \/ \E c \in Channels : ConnectSend(c)
    \/ \E c \in Channels, m \in BatchMsgs : RawSend(c, m)
    \/ \E t \in Tasks : HandleMessage(t)
    \/ \E t \in Tasks : ReceiptUpdate(t)
    \/ \E t \in Tasks : ReceiptFail(t)
    \/ \E t \in Tasks : EmailSend(t)
    \/ \E t \in Tasks : EmailFail(t)
    \/ \E t \in Tasks : LookupFail(t)
    \/ \E t \in Tasks : Persist(t)
    \/ \E t \in Tasks : Broadcast(t)

SpecBatch == InitPaid /\ [][NextBatch]_vars

\* The client hook: admins of r1 connect, receive, press the status buttons
\* and leave; the server processes what they send.
NextClient ==
    \/ \E c \in Channels : Connect(c, "r1")
    \/ \E c \in Channels : ConnectFetch(c)
    \/ \E c \in Channels : ConnectSend(c)
    \/ \E c \in Channels : Disconnect(c)
    \/ \E c \in Channels : Deliver(c)
    \/ \E c \in Channels, i \in 1..Len(OrderSeq) : AdminAdvance(c, i)
    \/ \E t \in Tasks : HandleMessage(t)
    \/ \E t \in Tasks : ReceiptUpdate(t)
    \/ \E t \in Tasks : EmailSend(t)
    \/ \E t \in Tasks : Persist(t)
    \/ \E t \in Tasks : Broadcast(t)

SpecClient == InitPaid /\ [][NextClient]_vars

\* ------------------------------------------------------------------ claims
\* the channels the registry holds for restaurant r
Registered(r) == IF r \in DOMAIN registry THEN registry[r] ELSE {}

\* a run of the message listener that has read the ledger and has not ended
InFlight(t) == task[t].pc \in {"receipt", "email", "persist", "broadcast"}

\* C1: update processing is serialized per restaurant: no run of the message
\* listener has read the ledger of a restaurant while another run for the same
\* restaurant is between its read and its broadcast.
C1_SerializedPerRestaurant ==
    \A t \in Tasks, u \in Tasks :
        (t # u /\ InFlight(t) /\ InFlight(u)) => task[t].rid # task[u].rid

\* C2: every restaurant's ledger list holds at most one order per id.
C2_OneOrderPerId ==
    \A r \in Restaurants : Cardinality(Ids(ledger[r])) = Len(ledger[r])

\* the restaurant of the URL the socket of run t was admitted on
HomeOf(t) == chan[task[t].chan].rid

\* C3: no cross-restaurant operation: a step of the message listener of a
\* socket registered to R replaces only R's ledger list and sends only to
\* sockets registered to R, whatever restaurantId the message carries.
C3_NoCrossRestaurant ==
    [][\A t \in Tasks : task'[t] # task[t] =>
          /\ \A r \in Restaurants : r # HomeOf(t) => ledger'[r] = ledger[r]
          /\ \A c \in Channels : inbox'[c] # inbox[c] => c \in Registered(HomeOf(t))]_vars

\* the status of the (first) order with the id in a list
StatusIn(list, id) == list[FindIndex(list, id)].status

\* C4: order status is strictly forward-moving in the ledger: with admins that
\* request only the next status of an order of the list they know, no step
\* moves the ledger status of an order to an earlier state (so a completed
\* order never changes again).
C4_StatusForward ==
    [][\A r \in Restaurants : \A id \in Ids(ledger[r]) \cap Ids(ledger'[r]) :
          Rank(StatusIn(ledger'[r], id)) >= Rank(StatusIn(ledger[r], id))]_vars

\* the ledger write of run t has succeeded
Persisted(t) == task[t].pc = "broadcast" \/ task[t].outcome = "broadcast"

\* C5: notification runs after persistence: a step of an update that writes
\* the customer's receipt or hands a mail to the sender is taken only when
\* that update's ledger write has succeeded.
C5_NotifyAfterPersist ==
    [][\A t \in Tasks :
          (task'[t] # task[t] /\ (pastOrders' # pastOrders \/ emails' # emails)) => Persisted(t)]_vars

\* C6: a notification failure never blocks the ledger update or the
\* broadcast: no run of the message listener ends because handling the
\* notification of a changed order failed.
C6_NotifyFailureIsolated ==
    \A t \in Tasks : task[t].outcome # "notifyError"

\* C7: a failed ledger write drops the update: the step in which the write of
\* a run fails leaves the ledger, every socket's messages, the registry and
\* the sockets as they are, and ends the run without a broadcast.
C7_PersistFailureDropsUpdate ==
    [][\A t \in Tasks : (task[t].pc = "persist" /\ task'[t].pc # "broadcast" /\ task'[t] # task[t]) =>
          /\ task'[t].pc = "done" /\ task'[t].outcome = "persistError"
          /\ ledger' = ledger
          /\ inbox' = inbox
          /\ registry' = registry
          /\ chan' = chan]_vars

\* C7 witness: a write has failed for an update of a socket that is still
\* open, listening and registered, while the ledger holds the order.
C7_Witness ==
    \E t \in Tasks :
        /\ task[t].outcome = "persistError"
        /\ chan[task[t].chan].state = "open"
        /\ chan[task[t].chan].pc = "ready"
        /\ task[t].chan \in Registered(HomeOf(t))
        /\ ledger["r1"] = <<PaidOrder>>

\* a message that does not parse as { restaurantId, orders }
IsMalformed(m) == m.kind \in MalformedKinds

FanOut(r, orders) ==
    \A c \in Channels :
        inbox'[c] = IF c \in Registered(r) /\ chan[c].state = "open"
                    THEN Append(inbox[c], [restaurantId |-> r, orders |-> orders])
                    ELSE inbox[c]

C10_ClosedIsUnregistered ==
    \A c \in Channels :
        (chan[c].state = "closed" /\ chan[c].pc \in {"ready", "failed"}) =>
            \A k \in DOMAIN registry : c \notin registry[k]

\* C11: the first message of a newly connected socket is its initial
\* snapshot: while the SOCKET run of a socket has not sent the initial
\* snapshot, no message has been sent to the socket.
C11_InitialSnapshotFirst ==
    \A c \in Channels : chan[c].pc \in {"fetching", "sending"} => inbox[c] = <<>>

\* C12: disconnect cleanup: the close listener's unregister removes the
\* socket and, with the last socket, the restaurant's key, so no key of the
\* registry maps to an empty set; a broadcast for a restaurant without
\* registered sockets sends nothing and ends like any other.
C12_DisconnectCleanup ==
    [][/\ \A k \in DOMAIN registry' : registry'[k] # {}
       /\ \A c \in Channels :
              (chan[c].state = "open" /\ chan'[c].state = "closed" /\ chan[c].pc = "ready") =>
                  \A k \in DOMAIN registry' : c \notin registry'[k]
       /\ \A t \in Tasks :
              (task[t].pc = "broadcast" /\ task'[t] # task[t] /\ Registered(task[t].rid) = {}) =>
                  inbox' = inbox /\ task'[t].outcome = "broadcast"
       /\ \A h \in Hooks :
              (hook[h].pc = "broadcast" /\ hook'[h] # hook[h] /\ Registered(Metadata(h).restaurantId) = {}) =>
                  inbox' = inbox /\ hook'[h].status = 200]_vars

\* C12 witness: the only socket of a restaurant was unregistered by its close
\* listener, the restaurant has no key in the registry, and an update for
\* the restaurant has run to the end of its broadcast.
C12_Witness ==
    \E r \in Restaurants :
        /\ r \notin DOMAIN registry
        /\ \E c \in Channels : chan[c].rid = r /\ chan[c].state = "closed" /\ chan[c].pc = "ready"
        /\ \A c \in Channels : chan[c].state # "new" /\ inbox[c] = <<>>
        /\ \/ \E t \in Tasks : task[t].rid = r /\ task[t].outcome = "broadcast"
           \/ \E h \in Hooks : h # 1 /\ Metadata(h).restaurantId = r /\ hook[h].status = 200

\* a run of the message listener that holds the list it read and the list
\* of its message
HasInputs(t) == task[t].pc \in {"receipt", "email", "persist", "broadcast"}

\* C13: reconciling is a no-op when nothing is new: with a current list of
\* unique ids, a message that carries the current list, or no order at all,
\* gives merged = current (same orders, same order) and changed = <<>>.
C13_ReconcileNoOp ==
    \A t \in Tasks :
        (HasInputs(t) /\ UniqueIds(task[t].current) /\ task[t].orders \in {task[t].current, <<>>}) =>
            /\ mergedOrders(task[t].current, task[t].orders) = task[t].current
            /\ changedOrders(task[t].current, task[t].orders) = <<>>
            /\ task[t].pc = "broadcast" => ledger[task[t].rid] = task[t].current

\* C13 witness: a message that repeated a current list of two orders was
\* persisted.
C13_Witness ==
    \E t \in Tasks :
        /\ task[t].pc = "broadcast"
        /\ Len(task[t].current) = 2
        /\ task[t].orders = task[t].current
        /\ ledger[task[t].rid] = task[t].current

\* C14: last writer wins per order, unrelated orders untouched: merged holds
\* exactly the ids of current and incoming, each once; an id of the message
\* carries a version of the message, an id of the current list alone carries
\* its current version.
C14_LastWriterWins ==
    \A t \in Tasks : HasInputs(t) =>
        LET cur == task[t].current
            inc == task[t].orders
            merged == mergedOrders(cur, inc)
        IN /\ Ids(merged) = Ids(cur) \cup Ids(inc)
           /\ UniqueIds(merged)
           /\ \A i \in 1..Len(merged) :
                  IF merged[i].id \in Ids(inc)
                  THEN /\ \E j \in 1..Len(inc) : inc[j] = merged[i]
                       /\ UniqueIds(inc) => merged[i] = inc[FindIndex(inc, merged[i].id)]
                  ELSE merged[i] = cur[FindIndex(cur, merged[i].id)]
           /\ task[t].pc = "broadcast" => ledger[task[t].rid] = merged

\* C14 witness: current = [A pending, B], incoming = [A preparing]: the
\* ledger holds B unchanged and A preparing.
C14_Witness ==
    \E t \in Tasks :
        /\ task[t].pc = "broadcast"
        /\ task[t].current = <<MkOrder("o1", "u1", Pending, "i1", "std"), MkOrder("o2", "u1", Pending, "i1", "std")>>
        /\ task[t].orders = <<MkOrder("o1", "u1", Preparing, "i1", "std")>>
        /\ ledger[task[t].rid] = <<MkOrder("o2", "u1", Pending, "i1", "std"), MkOrder("o1", "u1", Preparing, "i1", "std")>>

\* the values of all fields of an order, whatever the order of its keys
FieldValues(o) == <<o.id, o.customerId, o.status, o.items>>

\* C15: changed is exactly the orders of the message whose id is not in the
\* current list or whose field values differ from the current order of that
\* id (deep value equality, independent of the order of the keys).
C15_ChangedIsDeepDifference ==
    \A t \in Tasks : HasInputs(t) =>
        LET cur == task[t].current
            inc == task[t].orders
        IN changedOrders(cur, inc) =
               SelectSeq(inc, LAMBDA u : \/ u.id \notin Ids(cur)
                                         \/ FieldValues(cur[FindIndex(cur, u.id)]) # FieldValues(u))

\* the status mail of an order
MailOf(o) == [to |-> o.customerId, id |-> o.id, status |-> o.status]

\* C16: when the notification loop of an update is through, a mail was
\* handed to the sender for every changed order whose customer has a contact
\* address, and no run ended in an error because an order had no customer or
\* no address.
C16_NotifyEveryChangedOrder ==
    \A t \in Tasks :
        /\ task[t].outcome # "notifyError"
        /\ task[t].pc \in {"persist", "broadcast"} =>
               LET changed == changedOrders(task[t].current, task[t].orders)
               IN \A i \in 1..Len(changed) :
                      HasEmail(changed[i].customerId) => MailOf(changed[i]) \in emails

\* C17: the fields fixed at checkout are immutable in the ledger: the paid
\* order keeps the items and pricing it was appended with.
C17_CheckoutFieldsImmutable ==
    \A i \in 1..Len(ledger["r1"]) :
        ledger["r1"][i].id = PaidOrder.id => ledger["r1"][i].items = PaidOrder.items

\* the lists a handler holds as the complete list of restaurant r and is
\* about to send: the list SOCKET read for the initial snapshot, the list a
\* message handler has written, the list the webhook has read again
HeldLists(r) ==
    {chan[c].snap : c \in {d \in Channels : chan[d].pc = "sending" /\ chan[d].rid = r}}
        \cup {mergedOrders(task[t].current, task[t].orders) :
                  t \in {u \in Tasks : task[u].pc = "broadcast" /\ task[u].rid = r}}
        \cup {hook[h].read : h \in {g \in Hooks : hook[g].pc = "broadcast" /\ Metadata(g).restaurantId = r}}

\* C18: every message of the server for restaurant R carries a complete
\* ledger list of R of that or an earlier state: a list enters the held
\* lists of R only as R's ledger list of the state it is read in or written
\* to, and every message sent carries a held list of its restaurant.
C18_SnapshotIsLedgerList ==
    [][/\ \A r \in Restaurants : HeldLists(r)' \subseteq HeldLists(r) \cup {ledger[r], ledger'[r]}
       /\ \A c \in Channels : Len(inbox'[c]) > Len(inbox[c]) =>
              /\ inbox'[c] = Append(inbox[c], inbox'[c][Len(inbox'[c])])
              /\ inbox'[c][Len(inbox'[c])].orders \in HeldLists(inbox'[c][Len(inbox'[c])].restaurantId)]_vars

\* C18 witness: after an update was broadcast, a socket's latest message for
\* r1 carries a list that is no longer the ledger list of r1.
C18_Witness ==
    /\ \E t \in Tasks : task[t].outcome = "broadcast"
    /\ \E c \in Channels :
           /\ Len(inbox[c]) >= 2
           /\ inbox[c][Len(inbox[c])].restaurantId = "r1"
           /\ inbox[c][Len(inbox[c])].orders # ledger["r1"]

\* C19: the webhook removes the pending order it consumed: once an event was
\* answered 200, the pendingOrders store holds no document of its pending
\* order (so a later event of the checkout finds none and is answered 404).
C19_PendingOrderRemoved ==
    \A h \in Hooks :
        (hook[h].pc = "done" /\ hook[h].status = 200) => FindPending(Metadata(h).pendingOrderId) = {}

\* C20: a broadcast sends to exactly the sockets registered to its restaurant
\* whose readyState is open: the others are skipped, the broadcast ends
\* normally and changes nothing but the messages of those sockets.
C20_BroadcastSkipsClosed ==
    [][/\ \A t \in Tasks : (task[t].pc = "broadcast" /\ task'[t] # task[t]) =>
              /\ \A c \in Channels :
                     inbox'[c] # inbox[c] <=> (c \in Registered(task[t].rid) /\ chan[c].state = "open")
              /\ task'[t].outcome = "broadcast"
              /\ registry' = registry /\ chan' = chan /\ ledger' = ledger
       /\ \A h \in Hooks : (hook[h].pc = "broadcast" /\ hook'[h] # hook[h]) =>
              /\ \A c \in Channels :
                     inbox'[c] # inbox[c] <=>
                         (c \in Registered(Metadata(h).restaurantId) /\ chan[c].state = "open")
              /\ hook'[h].status = 200
              /\ registry' = registry /\ chan' = chan /\ ledger' = ledger]_vars

\* C20 witness: an update of a restaurant was broadcast; a closed socket is
\* registered to the restaurant and has no message, an open one has the
\* broadcast.
C20_Witness ==
    \E t \in Tasks, c \in Channels, d \in Channels :
        /\ task[t].outcome = "broadcast"
        /\ {c, d} \subseteq Registered(task[t].rid)
        /\ chan[c].state = "closed" /\ inbox[c] = <<>>
        /\ chan[d].state = "open" /\ Len(inbox[d]) >= 2
        /\ inbox[d][Len(inbox[d])].restaurantId = task[t].rid

\* index of the last order of a list with the id
LastIndex(list, id) == CHOOSE i \in 1..Len(list) : list[i].id = id /\ \A j \in (i+1)..Len(list) : list[j].id # id

\* C21: dedup on id: for an id the message carries (once or several times,
\* with different content), merged holds exactly one entry, the last
\* occurrence of the id in the message.
C21_DedupLastOccurrence ==
    \A t \in Tasks : HasInputs(t) =>
        LET inc == task[t].orders
            merged == mergedOrders(task[t].current, inc)
        IN /\ \A id \in Ids(inc) :
                  /\ Cardinality({i \in 1..Len(merged) : merged[i].id = id}) = 1
                  /\ merged[FindIndex(merged, id)] = inc[LastIndex(inc, id)]
           /\ task[t].pc = "broadcast" => ledger[task[t].rid] = merged

\* C21 witness: a message with two different entries of o1 was persisted and
\* the ledger holds the second one only.
C21_Witness ==
    \E t \in Tasks :
        /\ task[t].pc = "broadcast"
        /\ task[t].orders = <<MkOrder("o1", "u1", Pending, "i1", "std"), MkOrder("o1", "u1", Preparing, "i1", "std")>>
        /\ ledger[task[t].rid] = <<MkOrder("o1", "u1", Preparing, "i1", "std")>>

\* C22: the order of merged is stable: ids of the current list keep their
\* relative positions (also when the message updates them) and ids new in
\* the message come after them.
C22_MergedOrderStable ==
    \A t \in Tasks : (HasInputs(t) /\ UniqueIds(task[t].current)) =>
        LET cur == task[t].current
            merged == mergedOrders(cur, task[t].orders)
        IN \A a \in Ids(merged), b \in Ids(merged) :
               (FindIndex(merged, a) < FindIndex(merged, b)) =>
                   \/ a \in Ids(cur) /\ b \in Ids(cur) /\ FindIndex(cur, a) < FindIndex(cur, b)
                   \/ b \notin Ids(cur)

\* C23: per-order failure isolation: the failure of one changed order's
\* notification does not keep the remaining changed orders from their
\* notification: a run ends on such a failure only when no changed order
\* with a customer is left behind the failing one.
C23_PerOrderIsolation ==
    [][\A t \in Tasks : (task'[t].outcome = "notifyError" /\ task[t].outcome # "notifyError") =>
          LET cur == IF task[t].pc = "recv" THEN ledger[task[t].rid] ELSE task[t].current
              changed == changedOrders(cur, task[t].orders)
              failing == IF task[t].pc = "recv" THEN ScanCustomer(changed, 1) ELSE task[t].idx
          IN ScanCustomer(changed, failing + 1) > Len(changed)]_vars

\* C28: for one message at most one notification per order id, with the
\* status merged holds for the id: the order a run dispatches a mail for has
\* the status of its id in merged, and no earlier round of the run was about
\* the same id.
C28_OneNotificationPerId ==
    [][\A t \in Tasks : (task[t].pc = "email" /\ task'[t] # task[t] /\ task'[t].outcome # "notifyError") =>
          LET changed == changedOrders(task[t].current, task[t].orders)
              merged == mergedOrders(task[t].current, task[t].orders)
              order == RoundOrder(task[t])
          IN /\ order.status = StatusIn(merged, order.id)
             /\ \A j \in 1..(task[t].idx - 1) : changed[j].id # order.id]_vars

\* C24: register is idempotent: registering a socket again under the
\* restaurant it is registered to leaves the registry as it is, and one
\* unregister then removes the socket from the restaurant's set.
C24_RegisterIdempotent ==
    \A r \in DOMAIN registry : \A c \in registry[r] :
        LET again == addClient(registry, r, c)
        IN /\ again = registry
           /\ c \in getClients(again, r)
           /\ c \notin getClients(removeClient(again, r, c), r)

\* C24 witness: two sockets are registered to one restaurant.
C24_Witness ==
    \E r \in DOMAIN registry : registry[r] = Channels /\ Cardinality(Channels) = 2

\* C25: an order the webhook has appended stays in the ledger: no step takes
\* an order id out of a restaurant's ledger list.
C25_LedgerIdsNeverShrink ==
    [][\A r \in Restaurants : Ids(ledger[r]) \subseteq Ids(ledger'[r])]_vars

\* no connect, update or webhook run is under way and every message sent
\* has been handled by its client
Quiescent ==
    /\ \A c \in Channels : chan[c].pc \in {"idle", "ready"} /\ inbox[c] = <<>>
    /\ \A t \in Tasks : task[t].pc \in {"free", "done"}
    /\ \A h \in Hooks : hook[h].pc \in {"free", "done"}

\* C26: quiescent convergence: in a quiescent state the list every open
\* registered socket's client holds for its restaurant, the last snapshot it
\* received, is the restaurant's ledger list.
C26_QuiescentConvergence ==
    Quiescent =>
        \A c \in Channels :
            (chan[c].state = "open" /\ c \in Registered(chan[c].rid)) =>
                restaurantOrders(local[c], chan[c].rid) = ledger[chan[c].rid]

\* C27: receipt consistency: when no update message is being processed,
\* every receipt of a customer for an order of a ledger list carries the
\* status the order has in the ledger.
C27_ReceiptMatchesLedger ==
    (\A t \in Tasks : task[t].pc \in {"free", "done"}) =>
        \A r \in Restaurants : \A i \in 1..Len(ledger[r]) :
            LET order == ledger[r][i]
            IN order.customerId \in Users =>
                   \A k \in 1..Len(pastOrders[order.customerId]) :
                       pastOrders[order.customerId][k].id = order.id =>
                           pastOrders[order.customerId][k].status = order.status

\* C29: a socket is in at most one set of the registry, the set of the
\* restaurant of the URL it connected on.
C29_OneRestaurantPerSocket ==
    \A k \in DOMAIN registry : \A c \in registry[k] :
        chan[c].state # "new" /\ chan[c].rid = k

\* C29 witness: after a socket has closed and a message that names another
\* restaurant than its socket's was processed to the end, the sending socket
\* is registered to its own restaurant.
C29_Witness ==
    \E t \in Tasks :
        /\ task[t].outcome = "broadcast"
        /\ task[t].rid # HomeOf(t)
        /\ task[t].chan \in Registered(HomeOf(t))
        /\ \E c \in Channels : chan[c].state = "closed"

\* the messages socket c's client sends in a step
SentBy(c) == {t \in Tasks : task[t].pc = "free" /\ task'[t].pc = "recv" /\ task'[t].chan = c}

====
